---- MODULE Spec2Model ----
(***************************************************************************)
(* A model of the picture-processing unit of sprocketnes (src/ppu.rs):     *)
(* the register bank, VRAM and OAM, the sprite model, the scanline sprite  *)
(* evaluator, the pixel pipeline and the step state machine.               *)
(*                                                                         *)
(* Integers keep the width the source gives them: u8 values are reduced    *)
(* modulo 256 and u16 values modulo 65536 wherever the source computes     *)
(* with them (integer arithmetic wraps silently in the Rust dialect the    *)
(* source is written in).                                                  *)
(***************************************************************************)
EXTENDS Integers, Sequences, FiniteSets, TLC

VARIABLES
    regs,            \* Regs: ctrl, mask, status, oam_addr, scroll, addr
    vram,            \* Vram: chr (the cartridge's pattern data), nametables, palette
    oam,             \* Oam.oam
    screen,          \* Ppu.screen
    scanline,        \* Ppu.scanline
    ppudata_buffer,  \* Ppu.ppudata_buffer
    scroll_x,        \* Ppu.scroll_x
    scroll_y,        \* Ppu.scroll_y
    cy,              \* Ppu.cy
    pc,              \* "idle" between calls, "step" inside step's loop, "failed" after fail!
    run_to_cycle,    \* the argument of the step call in progress (of the last one when idle)
    result,          \* the StepResult of the step call in progress (of the last one when idle)
    last,            \* the last call made on the core, with what it returned
    hist             \* history: what has happened so far (read by the properties only)

vars == <<regs, vram, oam, screen, scanline, ppudata_buffer, scroll_x, scroll_y,
          cy, pc, run_to_cycle, result, last, hist>>

-----------------------------------------------------------------------------
(* Constants of the source.                                                *)

SCREEN_WIDTH == 256
SCREEN_HEIGHT == 240
CYCLES_PER_SCANLINE == 114
VBLANK_SCANLINE == 241
(* A frame that wraps at the end of the visible lines.                      *)
LAST_SCANLINE_visible == SCREEN_HEIGHT
LAST_SCANLINE == 261

PALETTE ==
    << 124,124,124,    0,0,252,        0,0,188,        68,40,188,
       148,0,132,      168,0,32,       168,16,0,       136,20,0,
       80,48,0,        0,120,0,        0,104,0,        0,88,0,
       0,64,88,        0,0,0,          0,0,0,          0,0,0,
       188,188,188,    0,120,248,      0,88,248,       104,68,252,
       216,0,204,      228,0,88,       248,56,0,       228,92,16,
       172,124,0,      0,184,0,        0,168,0,        0,168,68,
       0,136,136,      0,0,0,          0,0,0,          0,0,0,
       248,248,248,    60,188,252,     104,136,252,    152,120,248,
       248,120,248,    248,88,152,     248,120,88,     252,160,68,
       248,184,0,      184,248,24,     88,216,84,      88,248,152,
       0,232,216,      120,120,120,    0,0,0,          0,0,0,
       252,252,252,    164,228,252,    184,184,248,    216,184,248,
       248,184,248,    248,164,192,    240,208,176,    252,224,168,
       248,216,120,    216,248,120,    184,248,184,    184,248,216,
       0,252,252,      248,216,248,    0,0,0,          0,0,0 >>

-----------------------------------------------------------------------------
(* Machine arithmetic.                                                     *)

U8(n) == n % 256
U16(n) == n % 65536

(* a & b, bit by bit.                                                       *)
RECURSIVE BitAndBits(_, _)
BitAndBits(a, b) ==
    IF a = 0 \/ b = 0 THEN 0
    ELSE (a % 2) * (b % 2) + 2 * BitAndBits(a \div 2, b \div 2)

(* a & b.  A mask of the low k bits keeps a modulo 2^k, and a mask of one   *)
(* bit keeps that bit of a; any other mask is taken bit by bit.             *)
LowMasks == { 2 ^ k - 1 : k \in 1..16 }
BitMasks == { 2 ^ k : k \in 0..15 }
BitAnd(a, b) ==
    IF b \in LowMasks THEN a % (b + 1)
    ELSE IF b \in BitMasks THEN ((a \div b) % 2) * b
    ELSE BitAndBits(a, b)

BitOr(a, b) == a + b - BitAnd(a, b)
BitXor(a, b) == a + b - 2 * BitAnd(a, b)
Shr(a, k) == a \div (2 ^ k)

(* A fixed-size byte array that starts zeroed ([ 0, ..N ]) is kept as the    *)
(* function from the indices of its non-zero cells to their bytes: ArrRd    *)
(* reads a cell and ArrWr writes one, so that equal arrays are equal values. *)
ArrZero == [j \in {} |-> 0]
ArrRd(m, i) == IF i \in DOMAIN m THEN m[i] ELSE 0
ArrWr(m, i, v) ==
    IF v = 0 THEN [j \in (DOMAIN m) \ {i} |-> m[j]]
    ELSE [j \in (DOMAIN m) \cup {i} |-> IF j = i THEN v ELSE m[j]]

-----------------------------------------------------------------------------
(* PPUCTRL, PPUMASK, PPUSTATUS.                                            *)

x_scroll_offset(ctrl) == IF BitAnd(ctrl, \H01) = 0 THEN 0 ELSE 256
y_scroll_offset(ctrl) == IF BitAnd(ctrl, \H02) = 0 THEN 0 ELSE 240
vram_addr_increment(ctrl) == IF BitAnd(ctrl, \H04) = 0 THEN 1 ELSE 32
sprite_pattern_table_addr(ctrl) == IF BitAnd(ctrl, \H08) = 0 THEN 0 ELSE \H1000
background_pattern_table_addr(ctrl) == IF BitAnd(ctrl, \H10) = 0 THEN 0 ELSE \H1000
sprite_size(ctrl) == IF BitAnd(ctrl, \H20) = 0 THEN "SpriteSize8x8" ELSE "SpriteSize8x16"
vblank_nmi(ctrl) == BitAnd(ctrl, \H80) # 0

show_background(mask) == BitAnd(mask, \H08) # 0
show_sprites(mask) == BitAnd(mask, \H10) # 0

set_sprite_overflow(status, val) ==
    IF val THEN BitOr(status, \H20) ELSE BitAnd(status, 255 - \H20)
set_sprite_zero_hit(status, val) ==
    IF val THEN BitOr(status, \H40) ELSE BitAnd(status, 255 - \H40)
set_in_vblank(status, val) ==
    IF val THEN BitOr(status, \H80) ELSE BitAnd(status, 255 - \H80)

-----------------------------------------------------------------------------
(* VRAM and OAM.  A load that fails returns Failed.                         *)

Failed == -1

Vram_new(chr) == [chr |-> chr, nametables |-> ArrZero, palette |-> ArrZero]

(* A load whose name table mask covers four tables instead of two.          *)
Vram_loadb_four_tables(vm, addr) ==
    IF addr < \H2000 THEN ArrRd(vm.chr, addr)
    ELSE IF addr < \H3f00 THEN ArrRd(vm.nametables, BitAnd(addr, \H0fff))
    ELSE IF addr < \H4000 THEN ArrRd(vm.palette, BitAnd(addr, \H1f))
    ELSE Failed

(* A load that mirrors palette cell 0x10 to cell 0x00, as the store does.   *)
Vram_loadb_mirrored(vm, addr) ==
    IF addr < \H2000 THEN ArrRd(vm.chr, addr)
    ELSE IF addr < \H3f00 THEN ArrRd(vm.nametables, BitAnd(addr, \H07ff))
    ELSE IF addr < \H4000
         THEN LET a == BitAnd(addr, \H1f)
              IN  ArrRd(vm.palette, IF a = \H10 THEN \H00 ELSE a)
    ELSE Failed

Vram_loadb(vm, addr) ==
    IF addr < \H2000 THEN ArrRd(vm.chr, addr)
    ELSE IF addr < \H3f00 THEN ArrRd(vm.nametables, BitAnd(addr, \H07ff))
    ELSE IF addr < \H4000 THEN ArrRd(vm.palette, BitAnd(addr, \H1f))
    ELSE Failed

(* A store without the redirection of palette cell 0x10.                    *)
Vram_storeb_no_redirect(vm, addr, val) ==
    IF addr < \H2000 THEN vm
    ELSE IF addr < \H3f00
         THEN [vm EXCEPT !.nametables = ArrWr(@, BitAnd(addr, \H07ff), val)]
    ELSE IF addr < \H4000
         THEN [vm EXCEPT !.palette = ArrWr(@, BitAnd(addr, \H1f), val)]
    ELSE vm

Vram_storeb(vm, addr, val) ==
    IF addr < \H2000 THEN vm
    ELSE IF addr < \H3f00
         THEN [vm EXCEPT !.nametables = ArrWr(@, BitAnd(addr, \H07ff), val)]
    ELSE IF addr < \H4000
         THEN LET a == BitAnd(addr, \H1f)
                  b == IF a = \H10 THEN \H00 ELSE a
              IN  [vm EXCEPT !.palette = ArrWr(@, b, val)]
    ELSE vm

Oam_new == ArrZero
Oam_loadb(om, addr) == ArrRd(om, addr)
Oam_storeb(om, addr, val) == ArrWr(om, addr, val)

-----------------------------------------------------------------------------
(* The sprite model.                                                       *)

(* A sprite built with the stored Y byte as it is.                          *)
make_sprite_info_stored_y(om, index) ==
    [ y               |-> Oam_loadb(om, index * 4 + 0),
      tile_index_byte |-> Oam_loadb(om, index * 4 + 1),
      attribute_byte  |-> Oam_loadb(om, index * 4 + 2),
      x               |-> Oam_loadb(om, index * 4 + 3) ]

make_sprite_info(om, index) ==
    [ y               |-> U8(Oam_loadb(om, index * 4 + 0) + 1),
      tile_index_byte |-> Oam_loadb(om, index * 4 + 1),
      attribute_byte  |-> Oam_loadb(om, index * 4 + 2),
      x               |-> Oam_loadb(om, index * 4 + 3) ]

(* Tiles that fall back to the 8x8 tile when ctrl selects 8x16 sprites.     *)
tiles_fall_back(sprite, ctrl) ==
    [ kind |-> "SpriteTiles8x8",
      tile |-> BitOr(sprite.tile_index_byte, sprite_pattern_table_addr(ctrl)) ]

tiles(sprite, ctrl) ==
    LET base == sprite_pattern_table_addr(ctrl)
    IN  IF sprite_size(ctrl) = "SpriteSize8x8"
        THEN [kind |-> "SpriteTiles8x8", tile |-> BitOr(sprite.tile_index_byte, base)]
        ELSE LET first == BitAnd(sprite.tile_index_byte, 254)
                          + (IF BitAnd(sprite.tile_index_byte, 1) # 0 THEN \H1000 ELSE 0)
             IN  [kind |-> "SpriteTiles8x16", tile |-> first, second |-> first + 1]

palette(sprite) == U8(BitAnd(sprite.attribute_byte, 3) + 4)
flip_horizontal(sprite) == BitAnd(sprite.attribute_byte, \H40) # 0
flip_vertical(sprite) == BitAnd(sprite.attribute_byte, \H80) # 0
priority(sprite) == IF BitAnd(sprite.attribute_byte, \H20) = 0 THEN "AboveBg" ELSE "BelowBg"

on_scanline(sprite, ctrl, y) ==
    IF y < sprite.y THEN FALSE
    ELSE IF sprite_size(ctrl) = "SpriteSize8x8"
         THEN y < U8(sprite.y + 8)
         ELSE y < U8(sprite.y + 16)

in_bounding_box(sprite, ctrl, x, y) ==
    x >= sprite.x /\ x < U8(sprite.x + 8) /\ on_scanline(sprite, ctrl, y)

-----------------------------------------------------------------------------
(* The core as constructed by Ppu::new, over a cartridge whose pattern     *)
(* data is chr.                                                            *)

Regs_new ==
    [ ctrl |-> 0, mask |-> 0, status |-> 0, oam_addr |-> 0,
      scroll |-> [x |-> 0, y |-> 0, next |-> "XDir"],
      addr |-> [val |-> 0, next |-> "Hi"] ]

NoCall == [op |-> "none", addr |-> 0, val |-> 0, ret |-> 0]

NoHistory ==
    [ nops          |-> 0,       \* register calls made so far
      events        |-> << >>,   \* vblank entries, frame wraps and step returns, in order
      status_read   |-> FALSE,   \* a load of the status register has happened
      scroll_writes |-> << >>,   \* bytes stored to index 5 since the last status load
      addr_writes   |-> << >>,   \* bytes stored to index 6 since the last status load
      at_read       |-> [scroll |-> "XDir", addr |-> "Hi"],
                                 \* the latches as the last status load found them
      prev          |-> NoCall ] \* the call before the last one

Ppu_new(vm, om) ==
    /\ regs = Regs_new
    /\ vram = vm
    /\ oam = om
    /\ screen = ArrZero
    /\ scanline = 0
    /\ ppudata_buffer = 0
    /\ scroll_x = 0
    /\ scroll_y = 0
    /\ cy = 0
    /\ pc = "idle"
    /\ run_to_cycle = 0
    /\ result = [new_frame |-> FALSE, vblank_nmi |-> FALSE]
    /\ last = NoCall
    /\ hist = NoHistory

(* The first three entries of a history of stores are kept: a length of 3   *)
(* stands for three or more.                                                *)
Noted(seq, v) == IF Len(seq) < 3 THEN Append(seq, v) ELSE seq

-----------------------------------------------------------------------------
(* Register manipulation.  Each handler is an action on the core's own      *)
(* state; Ppu_loadb and Ppu_storeb add the bookkeeping of the call.         *)

update_ppuctrl(val) ==
    /\ regs' = [regs EXCEPT !.ctrl = val]
    /\ scroll_x' = BitOr(BitAnd(scroll_x, \Hff), x_scroll_offset(val))
    /\ scroll_y' = BitOr(BitAnd(scroll_y, \Hff), y_scroll_offset(val))
    /\ UNCHANGED <<vram, oam, screen, scanline, ppudata_buffer, cy>>

update_ppumask(val) ==
    /\ regs' = [regs EXCEPT !.mask = val]
    /\ UNCHANGED <<vram, oam, screen, scanline, ppudata_buffer, scroll_x, scroll_y, cy>>

update_oamaddr(val) ==
    /\ regs' = [regs EXCEPT !.oam_addr = val]
    /\ UNCHANGED <<vram, oam, screen, scanline, ppudata_buffer, scroll_x, scroll_y, cy>>

update_ppuscroll(val) ==
    /\ IF regs.scroll.next = "XDir"
       THEN /\ scroll_x' = BitOr(BitAnd(scroll_x, \Hff00), val)
            /\ regs' = [regs EXCEPT !.scroll.x = val, !.scroll.next = "YDir"]
            /\ UNCHANGED scroll_y
       ELSE /\ scroll_y' = BitOr(BitAnd(scroll_y, \Hff00), val)
            /\ regs' = [regs EXCEPT !.scroll.y = val, !.scroll.next = "XDir"]
            /\ UNCHANGED scroll_x
    /\ UNCHANGED <<vram, oam, screen, scanline, ppudata_buffer, cy>>

write_oamdata(val) ==
    /\ oam' = Oam_storeb(oam, regs.oam_addr, val)
    /\ regs' = [regs EXCEPT !.oam_addr = U8(@ + 1)]
    /\ UNCHANGED <<vram, screen, scanline, ppudata_buffer, scroll_x, scroll_y, cy>>

(* An address store whose low byte replaces the scroll position instead of  *)
(* keeping its low 8 bits.                                                  *)
update_ppuaddr_scroll_replaced(val) ==
    /\ IF regs.addr.next = "Hi"
       THEN /\ regs' = [regs EXCEPT
                          !.addr.val = BitOr(BitAnd(@, \H00ff), U16(val * 256)),
                          !.addr.next = "Lo"]
            /\ UNCHANGED scroll_x
       ELSE LET newval == BitOr(BitAnd(regs.addr.val, \Hff00), val)
                addr == BitAnd(newval, \H07ff)
                xscroll_base == IF addr < \H400 THEN 0 ELSE 256
            IN  /\ regs' = [regs EXCEPT !.addr.val = newval, !.addr.next = "Hi"]
                /\ scroll_x' = xscroll_base
    /\ UNCHANGED <<vram, oam, screen, scanline, ppudata_buffer, scroll_y, cy>>

update_ppuaddr(val) ==
    /\ IF regs.addr.next = "Hi"
       THEN /\ regs' = [regs EXCEPT
                          !.addr.val = BitOr(BitAnd(@, \H00ff), U16(val * 256)),
                          !.addr.next = "Lo"]
            /\ UNCHANGED scroll_x
       ELSE LET newval == BitOr(BitAnd(regs.addr.val, \Hff00), val)
                addr == BitAnd(newval, \H07ff)
                xscroll_base == IF addr < \H400 THEN 0 ELSE 256
            IN  /\ regs' = [regs EXCEPT !.addr.val = newval, !.addr.next = "Hi"]
                /\ scroll_x' = BitOr(BitAnd(scroll_x, \Hff), xscroll_base)
    /\ UNCHANGED <<vram, oam, screen, scanline, ppudata_buffer, scroll_y, cy>>

(* A status load that resets the scroll latch only.                         *)
read_ppustatus_scroll_only ==
    /\ regs' = [regs EXCEPT !.scroll.next = "XDir"]
    /\ UNCHANGED <<vram, oam, screen, scanline, ppudata_buffer, scroll_x, scroll_y, cy>>

(* A status load that also clears the vblank flag it returns.               *)
read_ppustatus_clears_vblank ==
    /\ regs' = [regs EXCEPT !.scroll.next = "XDir", !.addr.next = "Hi",
                            !.status = set_in_vblank(@, FALSE)]
    /\ UNCHANGED <<vram, oam, screen, scanline, ppudata_buffer, scroll_x, scroll_y, cy>>

read_ppustatus ==
    /\ regs' = [regs EXCEPT !.scroll.next = "XDir", !.addr.next = "Hi"]
    /\ UNCHANGED <<vram, oam, screen, scanline, ppudata_buffer, scroll_x, scroll_y, cy>>

write_ppudata(val) ==
    /\ vram' = Vram_storeb(vram, regs.addr.val, val)
    /\ regs' = [regs EXCEPT !.addr.val = U16(@ + vram_addr_increment(regs.ctrl))]
    /\ UNCHANGED <<oam, screen, scanline, ppudata_buffer, scroll_x, scroll_y, cy>>

(* read_ppudata's return value; Failed when the VRAM load fails.            *)
(* A load of index 7 that returns the fetched byte at every address.        *)
read_ppudata_ret_unbuffered ==
    LET addr == regs.addr.val
        val == Vram_loadb(vram, addr)
    IN  val

read_ppudata_ret ==
    LET addr == regs.addr.val
        val == Vram_loadb(vram, addr)
    IN  IF val = Failed THEN Failed
        ELSE IF addr < \H3f00 THEN ppudata_buffer ELSE val

read_ppudata ==
    LET addr == regs.addr.val
        val == Vram_loadb(vram, addr)
    IN  IF val = Failed
        THEN UNCHANGED <<regs, vram, oam, screen, scanline, ppudata_buffer,
                         scroll_x, scroll_y, cy>>
        ELSE /\ regs' = [regs EXCEPT !.addr.val = U16(@ + vram_addr_increment(regs.ctrl))]
             /\ ppudata_buffer' = IF addr < \H3f00 THEN val ELSE ppudata_buffer
             /\ UNCHANGED <<vram, oam, screen, scanline, scroll_x, scroll_y, cy>>

NoChange ==
    UNCHANGED <<regs, vram, oam, screen, scanline, ppudata_buffer, scroll_x, scroll_y, cy>>

(* Ppu::loadb: a load of the register at CPU address addr.                  *)
Ppu_loadb_ret(addr) ==
    LET index == BitAnd(addr, 7)
    IN  CASE index = 0 -> regs.ctrl
          [] index = 1 -> regs.mask
          [] index = 2 -> regs.status
          [] index = 3 -> 0
          [] index = 4 -> Failed
          [] index = 5 -> 0
          [] index = 6 -> 0
          [] index = 7 -> read_ppudata_ret

Ppu_loadb(addr) ==
    LET index == BitAnd(addr, 7)
        ret == Ppu_loadb_ret(addr)
    IN  /\ pc = "idle"
        /\ addr >= \H2000 /\ addr < \H4000
        /\ CASE index = 2 -> read_ppustatus
             [] index = 7 -> read_ppudata
             [] OTHER -> NoChange
        /\ pc' = IF ret = Failed THEN "failed" ELSE "idle"
        /\ last' = [op |-> "loadb", addr |-> addr, val |-> 0, ret |-> ret]
        /\ hist' = IF index = 2
                   THEN [hist EXCEPT !.nops = @ + 1, !.prev = last, !.status_read = TRUE,
                                     !.scroll_writes = << >>, !.addr_writes = << >>,
                                     !.at_read = [scroll |-> regs.scroll.next,
                                                  addr |-> regs.addr.next]]
                   ELSE [hist EXCEPT !.nops = @ + 1, !.prev = last]
        /\ UNCHANGED <<run_to_cycle, result>>

(* Ppu::storeb: a store of val to the register at CPU address addr.         *)
Ppu_storeb(addr, val) ==
    LET index == BitAnd(addr, 7)
    IN  /\ pc = "idle"
        /\ addr >= \H2000 /\ addr < \H4000
        /\ CASE index = 0 -> update_ppuctrl(val)
             [] index = 1 -> update_ppumask(val)
             [] index = 2 -> NoChange
             [] index = 3 -> update_oamaddr(val)
             [] index = 4 -> write_oamdata(val)
             [] index = 5 -> update_ppuscroll(val)
             [] index = 6 -> update_ppuaddr(val)
             [] index = 7 -> write_ppudata(val)
        /\ pc' = "idle"
        /\ last' = [op |-> "storeb", addr |-> addr, val |-> val, ret |-> 0]
        /\ hist' = CASE index = 5 ->
                          [hist EXCEPT !.nops = @ + 1, !.prev = last,
                                       !.scroll_writes = Noted(@, val)]
                     [] index = 6 ->
                          [hist EXCEPT !.nops = @ + 1, !.prev = last,
                                       !.addr_writes = Noted(@, val)]
                     [] OTHER -> [hist EXCEPT !.nops = @ + 1, !.prev = last]
        /\ UNCHANGED <<run_to_cycle, result>>

-----------------------------------------------------------------------------
(* Rendering.  An Option is a sequence: None is << >> and Some(v) is <<v>>. *)
(* step renders several scanlines in one call, so the rendering functions   *)
(* take the value self.scanline has when they run as their parameter sl.    *)

None == << >>
Some(v) == <<v>>

(* The palette read one entry too far.                                      *)
get_color_next_entry(palette_index) ==
    [ r |-> PALETTE[U8(palette_index * 3 + 2) + 4],
      g |-> PALETTE[U8(palette_index * 3 + 1) + 4],
      b |-> PALETTE[U8(palette_index * 3 + 0) + 4] ]

get_color(palette_index) ==
    [ r |-> PALETTE[U8(palette_index * 3 + 2) + 1],
      g |-> PALETTE[U8(palette_index * 3 + 1) + 1],
      b |-> PALETTE[U8(palette_index * 3 + 0) + 1] ]

nametable_addr(x_index0, y_index0) ==
    LET x_index == x_index0 % 64
        y_index == y_index0 % 60
        nametable_base ==
            CASE ~(x_index >= 32) /\ ~(y_index >= 30) -> \H2000
              [] (x_index >= 32) /\ ~(y_index >= 30) -> \H2400
              [] ~(x_index >= 32) /\ (y_index >= 30) -> \H2800
              [] (x_index >= 32) /\ (y_index >= 30) -> \H2c00
    IN  [base |-> nametable_base, x_index |-> U8(x_index % 32), y_index |-> U8(y_index % 30)]

(* The frame buffer is kept by rows: the bytes (y * SCREEN_WIDTH + x) * 3 + c *)
(* of one scanline y are a row of SCREEN_WIDTH * 3 bytes.  A row is stored   *)
(* packed, as the function from the places where a colour channel changes    *)
(* (the first pixel's three bytes, and every byte that differs from the same *)
(* channel of the pixel before it) to the byte there, and a row that holds   *)
(* only zero bytes is left out (as in ArrZero): equal frame buffers are      *)
(* equal values.                                                             *)
ZeroRow == [i \in 1..(SCREEN_WIDTH * 3) |-> 0]
PackRow(row) == [i \in {j \in DOMAIN row : j <= 3 \/ row[j] # row[j - 3]} |-> row[i]]
UnpackRow(packed) ==
    [i \in 1..(SCREEN_WIDTH * 3) |->
        packed[CHOOSE j \in DOMAIN packed :
                   /\ j <= i /\ j % 3 = i % 3
                   /\ \A k \in DOMAIN packed : (k <= i /\ k % 3 = i % 3) => k <= j]]
ScreenRow(scr, y) == IF y \in DOMAIN scr THEN UnpackRow(scr[y]) ELSE ZeroRow
ScreenByte(scr, i) == ScreenRow(scr, i \div (SCREEN_WIDTH * 3))[(i % (SCREEN_WIDTH * 3)) + 1]
ScreenWithRow(scr, y, row) ==
    IF row = ZeroRow THEN [j \in (DOMAIN scr) \ {y} |-> scr[j]]
    ELSE [j \in (DOMAIN scr) \cup {y} |-> IF j = y THEN PackRow(row) ELSE scr[j]]

(* putpixel on the row of the scanline being rendered.                      *)
putpixel(row, x, color) ==
    [row EXCEPT ![x * 3 + 0 + 1] = color.r,
                ![x * 3 + 1 + 1] = color.g,
                ![x * 3 + 2 + 1] = color.b]

get_pattern_pixel(kind, tile, x, y) ==
    LET offset0 == U16(U16(tile * 16) + y)
        pattern_offset ==
            IF kind = "Background"
            THEN U16(offset0 + background_pattern_table_addr(regs.ctrl))
            ELSE U16(offset0 + sprite_pattern_table_addr(regs.ctrl))
        plane0 == Vram_loadb(vram, pattern_offset)
        plane1 == Vram_loadb(vram, U16(pattern_offset + 8))
        bit0 == BitAnd(Shr(plane0, U8(7 - U8(x % 8))), 1)
        bit1 == BitAnd(Shr(plane1, U8(7 - U8(x % 8))), 1)
    IN  BitOr(U8(bit1 * 2), bit0)

get_background_pixel(x0, sl) ==
    LET x == U16(x0 + scroll_x)
        y == U16(sl + scroll_y)
        nt == nametable_addr(x \div 8, y \div 8)
        xsub == U8(x % 8)
        ysub == U8(y % 8)
        tile == Vram_loadb(vram, U16(nt.base + 32 * nt.y_index + nt.x_index))
        pattern_color == get_pattern_pixel("Background", tile, xsub, ysub)
        group == U8((nt.y_index \div 4) * 8 + nt.x_index \div 4)
        attr_byte == Vram_loadb(vram, U16(nt.base + \H3c0 + group))
        left == nt.x_index % 4 < 2
        top == nt.y_index % 4 < 2
        attr_table_color ==
            CASE left /\ top -> BitAnd(attr_byte, \H3)
              [] ~left /\ top -> BitAnd(Shr(attr_byte, 2), \H3)
              [] left /\ ~top -> BitAnd(Shr(attr_byte, 4), \H3)
              [] ~left /\ ~top -> BitAnd(Shr(attr_byte, 6), \H3)
        tile_color == BitOr(U8(attr_table_color * 4), pattern_color)
        palette_index == BitAnd(Vram_loadb(vram, U16(\H3f00 + tile_color)), \H3f)
    IN  IF pattern_color = 0 THEN None ELSE Some(get_color(palette_index))

(* get_sprite_pixel, from entry k of visible_sprites on.  It returns the    *)
(* colour (an Option of SpriteColor), whether sprite-zero-hit was set, and  *)
(* whether it failed.                                                       *)
RECURSIVE get_sprite_pixel_from_any_slot(_, _, _, _, _)
RECURSIVE get_sprite_pixel_from(_, _, _, _, _)
(* A sprite pixel that sets the hit flag for an opaque pixel of any slot.   *)
get_sprite_pixel_from_any_slot(k, visible_sprites, x, background_opaque, sl) ==
    IF k > 8 THEN [color |-> None, hit |-> FALSE, fail |-> FALSE]
    ELSE IF visible_sprites[k] = None THEN [color |-> None, hit |-> FALSE, fail |-> FALSE]
    ELSE
        LET index == visible_sprites[k][1]
            sprite == make_sprite_info(oam, index)
            t == tiles(sprite, regs.ctrl)
            sx0 == U8(x - sprite.x)
            sx == IF flip_horizontal(sprite) THEN U8(7 - sx0) ELSE sx0
            sy0 == U8(U8(sl) - sprite.y)
            sy == IF flip_vertical(sprite) THEN U8(7 - sy0) ELSE sy0
            pattern_color == get_pattern_pixel("Sprite", t.tile, sx, sy)
            tile_color == BitOr(U8(palette(sprite) * 4), pattern_color)
            palette_index == BitAnd(Vram_loadb(vram, U16(\H3f00 + tile_color)), \H3f)
        IN  IF ~in_bounding_box(sprite, regs.ctrl, x, U8(sl))
            THEN get_sprite_pixel_from_any_slot(k + 1, visible_sprites, x, background_opaque, sl)
            ELSE IF t.kind = "SpriteTiles8x16" \/ ~(sx < 8) \/ ~(sy < 8)
            THEN [color |-> None, hit |-> FALSE, fail |-> TRUE]
            ELSE IF pattern_color = 0
            THEN get_sprite_pixel_from_any_slot(k + 1, visible_sprites, x, background_opaque, sl)
            ELSE [ color |-> Some([priority |-> priority(sprite),
                                   color |-> get_color(palette_index)]),
                   hit |-> background_opaque,
                   fail |-> FALSE ]

get_sprite_pixel_from(k, visible_sprites, x, background_opaque, sl) ==
    IF k > 8 THEN [color |-> None, hit |-> FALSE, fail |-> FALSE]
    ELSE IF visible_sprites[k] = None THEN [color |-> None, hit |-> FALSE, fail |-> FALSE]
    ELSE
        LET index == visible_sprites[k][1]
            sprite == make_sprite_info(oam, index)
            t == tiles(sprite, regs.ctrl)
            sx0 == U8(x - sprite.x)
            sx == IF flip_horizontal(sprite) THEN U8(7 - sx0) ELSE sx0
            sy0 == U8(U8(sl) - sprite.y)
            sy == IF flip_vertical(sprite) THEN U8(7 - sy0) ELSE sy0
            pattern_color == get_pattern_pixel("Sprite", t.tile, sx, sy)
            tile_color == BitOr(U8(palette(sprite) * 4), pattern_color)
            palette_index == BitAnd(Vram_loadb(vram, U16(\H3f00 + tile_color)), \H3f)
        IN  IF ~in_bounding_box(sprite, regs.ctrl, x, U8(sl))
            THEN get_sprite_pixel_from(k + 1, visible_sprites, x, background_opaque, sl)
            ELSE IF t.kind = "SpriteTiles8x16" \/ ~(sx < 8) \/ ~(sy < 8)
            THEN [color |-> None, hit |-> FALSE, fail |-> TRUE]
            ELSE IF pattern_color = 0
            THEN get_sprite_pixel_from(k + 1, visible_sprites, x, background_opaque, sl)
            ELSE [ color |-> Some([priority |-> priority(sprite),
                                   color |-> get_color(palette_index)]),
                   hit |-> (index = 0 /\ background_opaque),
                   fail |-> FALSE ]

get_sprite_pixel(visible_sprites, x, background_opaque, sl) ==
    get_sprite_pixel_from(1, visible_sprites, x, background_opaque, sl)

(* compute_visible_sprites: each_sprite's loop from slot i on, with the     *)
(* closure's count and result.  It returns the result and whether the       *)
(* overflow flag was set.                                                   *)
RECURSIVE each_sprite_from_nine(_, _, _, _)
RECURSIVE each_sprite_from_short(_, _, _, _)
RECURSIVE each_sprite_from(_, _, _, _)
(* A scan that sets the overflow flag at the tenth sprite, not the ninth.   *)
each_sprite_from_nine(i, count, res, sl) ==
    IF i = 64 THEN [result |-> res, overflow |-> FALSE]
    ELSE IF on_scanline(make_sprite_info(oam, i), regs.ctrl, U8(sl))
    THEN IF count <= 8
         THEN each_sprite_from_nine(i + 1, count + 1,
                                    IF count < 8 THEN [res EXCEPT ![count + 1] = Some(i)]
                                    ELSE res, sl)
         ELSE [result |-> res, overflow |-> TRUE]
    ELSE each_sprite_from_nine(i + 1, count, res, sl)

(* A scan that stops one slot short of the end of OAM.                      *)
each_sprite_from_short(i, count, res, sl) ==
    IF i = 63 THEN [result |-> res, overflow |-> FALSE]
    ELSE IF on_scanline(make_sprite_info(oam, i), regs.ctrl, U8(sl))
    THEN IF count < 8
         THEN each_sprite_from_short(i + 1, count + 1, [res EXCEPT ![count + 1] = Some(i)], sl)
         ELSE [result |-> res, overflow |-> TRUE]
    ELSE each_sprite_from_short(i + 1, count, res, sl)

each_sprite_from(i, count, res, sl) ==
    IF i = 64 THEN [result |-> res, overflow |-> FALSE]
    ELSE IF on_scanline(make_sprite_info(oam, i), regs.ctrl, U8(sl))
    THEN IF count < 8
         THEN each_sprite_from(i + 1, count + 1, [res EXCEPT ![count + 1] = Some(i)], sl)
         ELSE [result |-> res, overflow |-> TRUE]
    ELSE each_sprite_from(i + 1, count, res, sl)

compute_visible_sprites(sl) == each_sprite_from(0, 0, [k \in 1..8 |-> None], sl)

(* A match that hides a sprite below the background where the background   *)
(* is transparent too.                                                      *)
combine_below_hidden(background_color, sprite_color, backdrop_color) ==
    CASE background_color = None /\ sprite_color = None -> backdrop_color
      [] background_color # None /\ sprite_color = None -> background_color[1]
      [] background_color # None /\ sprite_color # None
             /\ sprite_color[1].priority = "BelowBg" -> background_color[1]
      [] background_color = None /\ sprite_color # None
             /\ sprite_color[1].priority = "BelowBg" -> backdrop_color
      [] sprite_color # None
             /\ sprite_color[1].priority = "AboveBg" -> sprite_color[1].color

(* One turn of render_scanline's loop over the columns: the pixel at x.     *)
(* combine is the match on (background_color, sprite_color).                *)
combine(background_color, sprite_color, backdrop_color) ==
    CASE background_color = None /\ sprite_color = None -> backdrop_color
      [] background_color # None /\ sprite_color = None -> background_color[1]
      [] background_color # None /\ sprite_color # None
             /\ sprite_color[1].priority = "BelowBg" -> background_color[1]
      [] background_color = None /\ sprite_color # None
             /\ sprite_color[1].priority = "BelowBg" -> sprite_color[1].color
      [] sprite_color # None
             /\ sprite_color[1].priority = "AboveBg" -> sprite_color[1].color

combined(background_color, sp, backdrop_color) ==
    [ color |-> combine(background_color, sp.color, backdrop_color),
      hit |-> sp.hit, fail |-> sp.fail ]

render_pixel_over(background_color, visible_sprites, backdrop_color, x, sl) ==
    combined(background_color,
             IF show_sprites(regs.mask)
             THEN get_sprite_pixel(visible_sprites, U8(x), background_color # None, sl)
             ELSE [color |-> None, hit |-> FALSE, fail |-> FALSE],
             backdrop_color)

render_pixel(visible_sprites, backdrop_color, x, sl) ==
    render_pixel_over(
        IF show_background(regs.mask) THEN get_background_pixel(U8(x), sl) ELSE None,
        visible_sprites, backdrop_color, x, sl)

(* render_scanline's loop over the columns lo .. hi - 1, in order; st is    *)
(* the status register, the row of the frame buffer and whether rendering   *)
(* has failed (the loop stops at the first column that fails).  The range   *)
(* is run as its lower half and then its upper half.                        *)
render_column_put(p, x, st) ==
    IF p.fail THEN [st EXCEPT !.failed = TRUE]
    ELSE [ status |-> IF p.hit THEN set_sprite_zero_hit(st.status, TRUE)
                      ELSE st.status,
           row    |-> putpixel(st.row, x, p.color),
           failed |-> FALSE ]

render_column(x, visible_sprites, backdrop_color, sl, st) ==
    render_column_put(render_pixel(visible_sprites, backdrop_color, x, sl), x, st)

RECURSIVE render_columns(_, _, _, _, _, _)
render_columns(lo, hi, visible_sprites, backdrop_color, sl, st) ==
    IF st.failed \/ lo >= hi THEN st
    ELSE IF hi = lo + 1 THEN render_column(lo, visible_sprites, backdrop_color, sl, st)
    ELSE LET mid == (lo + hi) \div 2
         IN  render_columns(mid, hi, visible_sprites, backdrop_color, sl,
                 render_columns(lo, mid, visible_sprites, backdrop_color, sl, st))

render_scanline_with(vis, backdrop_color, sl, status, row) ==
    render_columns(0, SCREEN_WIDTH, vis.result, backdrop_color, sl,
        [ status |-> IF vis.overflow THEN set_sprite_overflow(status, TRUE) ELSE status,
          row |-> row,
          failed |-> FALSE ])

(* render_scanline at scanline sl, with the status register and the row of  *)
(* the frame buffer as they stand: the status register and the row it       *)
(* leaves, and whether it failed.                                           *)
render_scanline(sl, status, row) ==
    render_scanline_with(compute_visible_sprites(sl),
                         get_color(BitAnd(Vram_loadb(vram, \H3f00), \H3f)),
                         sl, status, row)

-----------------------------------------------------------------------------
(* The step state machine.  A call of step is step_call (entry, with its    *)
(* argument), then one step_iteration per turn of its loop, then            *)
(* step_return; no other call runs in between.  A turn works on st: the     *)
(* fields of the core that step changes, its result, and the events so far. *)

(* A vblank entry that requests the NMI whatever ctrl says.                 *)
start_vblank_always_nmi(status, res) ==
    [ status |-> set_sprite_zero_hit(set_in_vblank(status, TRUE), FALSE),
      result |-> [res EXCEPT !.vblank_nmi = TRUE] ]

(* A vblank entry that clears the overflow flag with the sprite-zero-hit    *)
(* flag.                                                                    *)
start_vblank_clears_overflow(status, res) ==
    [ status |-> set_sprite_overflow(
                     set_sprite_zero_hit(set_in_vblank(status, TRUE), FALSE), FALSE),
      result |-> IF vblank_nmi(regs.ctrl) THEN [res EXCEPT !.vblank_nmi = TRUE] ELSE res ]

start_vblank(status, res) ==
    [ status |-> set_sprite_zero_hit(set_in_vblank(status, TRUE), FALSE),
      result |-> IF vblank_nmi(regs.ctrl) THEN [res EXCEPT !.vblank_nmi = TRUE] ELSE res ]

(* What a turn of the loop does after render_scanline.                      *)
step_advance(rendered, st) ==
    IF rendered.failed
    THEN [st EXCEPT !.failed = TRUE, !.status = rendered.status,
                    !.screen = rendered.screen]
    ELSE IF U16(st.scanline + 1) = VBLANK_SCANLINE
    THEN [st EXCEPT !.screen = rendered.screen,
                    !.scanline = U16(st.scanline + 1),
                    !.status = start_vblank(rendered.status, st.result).status,
                    !.result = start_vblank(rendered.status, st.result).result,
                    !.events = IF BitAnd(rendered.status, \H80) = 0
                               THEN Append(@, "vblank_entry") ELSE @,
                    !.cy = @ + CYCLES_PER_SCANLINE]
    ELSE IF U16(st.scanline + 1) = LAST_SCANLINE
    THEN [st EXCEPT !.screen = rendered.screen,
                    !.scanline = 0,
                    !.status = set_in_vblank(rendered.status, FALSE),
                    !.result = [@ EXCEPT !.new_frame = TRUE],
                    !.events = Append(@, "new_frame"),
                    !.cy = @ + CYCLES_PER_SCANLINE]
    ELSE [st EXCEPT !.screen = rendered.screen,
                    !.scanline = U16(st.scanline + 1),
                    !.status = rendered.status,
                    !.cy = @ + CYCLES_PER_SCANLINE]

(* render_scanline's effect on st: its failure, the status register and     *)
(* the frame buffer.                                                        *)
step_rendered(r, st) ==
    [ failed |-> r.failed, status |-> r.status,
      screen |-> ScreenWithRow(st.screen, st.scanline, r.row) ]

(* The body of step's loop.                                                 *)
step_turn(st) ==
    IF st.scanline < SCREEN_HEIGHT
    THEN step_advance(
             step_rendered(
                 render_scanline(st.scanline, st.status, ScreenRow(st.screen, st.scanline)),
                 st),
             st)
    ELSE step_advance([failed |-> FALSE, status |-> st.status, screen |-> st.screen], st)

(* A turn that, when it is the last one, moves cy up to the target.         *)
step_store_catch_up(st) ==
    /\ regs' = [regs EXCEPT !.status = st.status]
    /\ screen' = st.screen
    /\ scanline' = st.scanline
    /\ cy' = IF st.cy + CYCLES_PER_SCANLINE > run_to_cycle THEN run_to_cycle ELSE st.cy
    /\ result' = st.result
    /\ pc' = IF st.failed THEN "failed" ELSE "step"
    /\ hist' = [hist EXCEPT !.events = st.events]

step_store(st) ==
    /\ regs' = [regs EXCEPT !.status = st.status]
    /\ screen' = st.screen
    /\ scanline' = st.scanline
    /\ cy' = st.cy
    /\ result' = st.result
    /\ pc' = IF st.failed THEN "failed" ELSE "step"
    /\ hist' = [hist EXCEPT !.events = st.events]

step_call(t) ==
    /\ pc = "idle"
    /\ pc' = "step"
    /\ run_to_cycle' = t
    /\ result' = [new_frame |-> FALSE, vblank_nmi |-> FALSE]
    /\ UNCHANGED <<regs, vram, oam, screen, scanline, ppudata_buffer, scroll_x, scroll_y,
                   cy, last, hist>>

(* An iteration that runs while the counter has not passed the target,      *)
(* whether or not a whole scanline still fits.                              *)
step_iteration_past_target ==
    /\ pc = "step"
    /\ ~(cy > run_to_cycle)
    /\ step_store(step_turn([ status |-> regs.status, screen |-> screen,
                              scanline |-> scanline, cy |-> cy, result |-> result,
                              events |-> hist.events, failed |-> FALSE ]))
    /\ UNCHANGED <<vram, oam, ppudata_buffer, scroll_x, scroll_y, run_to_cycle, last>>

step_iteration ==
    /\ pc = "step"
    /\ ~(cy + CYCLES_PER_SCANLINE > run_to_cycle)
    /\ step_store(step_turn([ status |-> regs.status, screen |-> screen,
                              scanline |-> scanline, cy |-> cy, result |-> result,
                              events |-> hist.events, failed |-> FALSE ]))
    /\ UNCHANGED <<vram, oam, ppudata_buffer, scroll_x, scroll_y, run_to_cycle, last>>

step_return ==
    /\ pc = "step"
    /\ cy + CYCLES_PER_SCANLINE > run_to_cycle
    /\ pc' = "idle"
    /\ last' = [op |-> "step", addr |-> run_to_cycle, val |-> 0, ret |-> result]
    /\ hist' = [hist EXCEPT !.prev = last,
                             !.events = IF result.new_frame
                                        THEN Append(@, "frame_completed") ELSE @]
    /\ UNCHANGED <<regs, vram, oam, screen, scanline, ppudata_buffer, scroll_x, scroll_y,
                   cy, run_to_cycle, result>>

-----------------------------------------------------------------------------
(* Spec: the core driven by its caller.  From the freshly constructed core  *)
(* the caller makes register loads and stores (at most MaxOps of them) and  *)
(* step calls with any targets up to MaxCycle, in any order.                *)

MaxOps == 2
MaxCycle == 342

TileZeroSolid == [a \in 0..15 |-> 255]

StepTargets ==
    { 0, CYCLES_PER_SCANLINE - 1, CYCLES_PER_SCANLINE + 1, 2 * CYCLES_PER_SCANLINE,
      MaxCycle }

CallerLoads == { \H2002, \H2007 }
CallerStores == { <<\H2000, \H80>>, <<\H2001, \H18>>, <<\H2006, \H3f>> }

Init == Ppu_new(Vram_new(TileZeroSolid), Oam_new)

CallerLoad == \E a \in CallerLoads : hist.nops < MaxOps /\ Ppu_loadb(a)

CallerStore == \E c \in CallerStores : hist.nops < MaxOps /\ Ppu_storeb(c[1], c[2])

CallerStep == \E t \in StepTargets : step_call(t)

Next == CallerLoad \/ CallerStore \/ CallerStep \/ step_iteration \/ step_return

Spec == Init /\ [][Next]_vars

(* C2: after any step call, for any target and after any sequence of       *)
(* earlier step calls and register accesses, the cycle counter cy is a      *)
(* multiple of CYCLES_PER_SCANLINE.                                         *)
C2_CycleMultiple == cy % CYCLES_PER_SCANLINE = 0

(* C2's case: a step call whose target is no multiple of the quantum has    *)
(* returned, after register accesses, having advanced the counter.          *)
C2_Witness ==
    /\ pc = "idle" /\ last.op = "step" /\ last.addr % CYCLES_PER_SCANLINE # 0
    /\ cy > 0 /\ hist.nops > 0

-----------------------------------------------------------------------------
(* SpecRegs: the register bank.  From the freshly constructed core the      *)
(* caller makes at most MaxRegsOps register loads and stores.               *)

MaxRegsOps == 4

RegsLoads == { \H2000, \H2002, \H2004, \H2007 }
RegsStores == { \H2000, \H2005, \H2006, \H2007 }
RegsVals == { \H20, \H3f, \Hff }

RegsInit == Ppu_new(Vram_new(TileZeroSolid), Oam_new)

RegsLoad == \E a \in RegsLoads : hist.nops < MaxRegsOps /\ Ppu_loadb(a)

RegsStore ==
    \E a \in RegsStores, v \in RegsVals : hist.nops < MaxRegsOps /\ Ppu_storeb(a, v)

RegsNext == RegsLoad \/ RegsStore

SpecRegs == RegsInit /\ [][RegsNext]_vars

LastStore(index) == last.op = "storeb" /\ BitAnd(last.addr, 7) = index

(* C3: after a load of the status register, whatever the latches were       *)
(* before, the next two stores to the scroll register land in X then Y, and *)
(* the next two stores to the address register land in the high byte then   *)
(* the low byte of addr.val.                                                *)
C3_LatchesReset ==
    hist.status_read =>
        /\ (Len(hist.scroll_writes) = 0 => regs.scroll.next = "XDir")
        /\ (Len(hist.scroll_writes) = 1 =>
                regs.scroll.x = hist.scroll_writes[1] /\ regs.scroll.next = "YDir")
        /\ (Len(hist.scroll_writes) = 2 =>
                /\ regs.scroll.x = hist.scroll_writes[1]
                /\ regs.scroll.y = hist.scroll_writes[2]
                /\ regs.scroll.next = "XDir")
        /\ (Len(hist.addr_writes) = 0 => regs.addr.next = "Hi")
        /\ (Len(hist.addr_writes) = 1 /\ LastStore(6) =>
                regs.addr.val \div 256 = hist.addr_writes[1] /\ regs.addr.next = "Lo")
        /\ (Len(hist.addr_writes) = 2 /\ LastStore(6) =>
                regs.addr.val % 256 = hist.addr_writes[2] /\ regs.addr.next = "Hi")

(* C3's case: a status load that found the address latch half written (an   *)
(* odd number of stores before it), followed by two stores to the address   *)
(* register, of different bytes.                                            *)
C3_Witness ==
    /\ hist.status_read /\ hist.at_read.addr = "Lo"
    /\ Len(hist.addr_writes) = 2 /\ LastStore(6)
    /\ hist.addr_writes[1] # hist.addr_writes[2]

(* C10 as claimed: apart from a load of register index 4 (and 8x16 sprite   *)
(* sampling, which no register access does), no sequence of register loads  *)
(* and stores makes the core fail: a load or store of index 7 completes for *)
(* every value the address latch can reach.                                 *)
C10_RegistersNeverFail ==
    pc = "failed" => (last.op = "loadb" /\ BitAnd(last.addr, 7) = 4)

IsLoad7 ==
    /\ hist'.nops = hist.nops + 1
    /\ last'.op = "loadb" /\ BitAnd(last'.addr, 7) = 7

(* C12: a load of register index 7 with the current address below 0x3F00    *)
(* returns the byte the previous such load left in the read buffer (0 at    *)
(* first; nothing else writes the buffer) and puts the byte fetched now in  *)
(* the buffer; with the current address in 0x3F00..0x3FFF it returns the    *)
(* fetched palette byte and leaves the buffer as it was; in both cases the  *)
(* address advances by the increment ctrl selects, 1 or 32.                 *)
C12_ReadBuffer ==
    [][ LET addr == regs.addr.val
            fetched == Vram_loadb(vram, addr)
        IN  /\ (IsLoad7 /\ addr < \H3f00 =>
                    /\ last'.ret = ppudata_buffer
                    /\ ppudata_buffer' = fetched)
            /\ (IsLoad7 /\ addr >= \H3f00 /\ addr < \H4000 =>
                    /\ last'.ret = fetched
                    /\ ppudata_buffer' = ppudata_buffer)
            /\ (IsLoad7 /\ addr < \H4000 =>
                    regs'.addr.val =
                        addr + (IF BitAnd(regs.ctrl, \H04) = 0 THEN 1 ELSE 32))
            /\ (~IsLoad7 => ppudata_buffer' = ppudata_buffer) ]_vars

(* C12's case: two loads of index 7 in a row below 0x3F00, the second       *)
(* returning the byte the first fetched, which is not the byte at its own   *)
(* address.                                                                 *)
C12_Witness ==
    /\ last.op = "loadb" /\ BitAnd(last.addr, 7) = 7
    /\ hist.prev.op = "loadb" /\ BitAnd(hist.prev.addr, 7) = 7
    /\ regs.addr.val < \H3f00
    /\ last.ret # 0 /\ last.ret # ppudata_buffer

-----------------------------------------------------------------------------
(* SpecVram: the VRAM on its own, through its loadb and storeb.  The first  *)
(* call is a store drawn from VramStores; the calls after it, at most       *)
(* MaxVramOps in all, are loads at the addresses related to the last call's *)
(* address and, in the palette, further stores.                             *)

MaxVramOps == 3

NametableAddrs == \H2000..\H3eff
PaletteAddrs == \H3f00..\H3fff

VramStores ==
    ({ \H3f00, \H3f10 } \X (0..255))
        \cup (NametableAddrs \X { \Ha5 })
        \cup (PaletteAddrs \X { \Hc1 })
        \cup ({ \H0000, \H1fff, \H4000, \Hffff } \X { \Ha5 })

VramLaterStores == { <<\H3f00, \H2a>>, <<\H3fe0, \H15>>, <<\H3f10, \H3f>> }

VramLoads ==
    IF last.addr \in PaletteAddrs THEN { \H3f00, \H3f10 } ELSE { BitXor(last.addr, \H0800) }

Vram_call(vm, call, failed) ==
    /\ pc = "idle"
    /\ vram' = vm
    /\ last' = call
    /\ hist' = [hist EXCEPT !.nops = @ + 1, !.prev = last]
    /\ pc' = IF failed THEN "failed" ELSE "idle"
    /\ UNCHANGED <<regs, oam, screen, scanline, ppudata_buffer, scroll_x, scroll_y, cy,
                   run_to_cycle, result>>

VramStore(addr, val) ==
    Vram_call(Vram_storeb(vram, addr, val),
              [op |-> "vram_storeb", addr |-> addr, val |-> val, ret |-> 0], FALSE)

VramLoad(addr) ==
    Vram_call(vram,
              [op |-> "vram_loadb", addr |-> addr, val |-> 0, ret |-> Vram_loadb(vram, addr)],
              Vram_loadb(vram, addr) = Failed)

VramInit == Ppu_new(Vram_new(ArrZero), Oam_new)

VramFirstStore == \E c \in VramStores : hist.nops = 0 /\ VramStore(c[1], c[2])

VramLaterStore ==
    \E c \in VramLaterStores :
        /\ hist.nops > 0 /\ hist.nops < MaxVramOps
        /\ last.addr \in PaletteAddrs
        /\ VramStore(c[1], c[2])

VramLaterLoad == \E a \in VramLoads : hist.nops > 0 /\ hist.nops < MaxVramOps /\ VramLoad(a)

VramNext == VramFirstStore \/ VramLaterStore \/ VramLaterLoad

SpecVram == VramInit /\ [][VramNext]_vars

StoreThenLoad(a, b) ==
    /\ hist.prev.op = "vram_storeb" /\ hist.prev.addr = a
    /\ last.op = "vram_loadb" /\ last.addr = b

(* C5 as claimed: a VRAM store of V to 0x3F10 followed by a VRAM load of    *)
(* 0x3F00 yields V & 0x3F.                                                  *)
C5_LoadYieldsMasked ==
    StoreThenLoad(\H3f10, \H3f00) => last.ret = BitAnd(hist.prev.val, \H3f)

(* C5 amended: a VRAM store of V to 0x3F10 followed by a VRAM load of       *)
(* 0x3F00 yields V itself, all eight bits of it.                            *)
C5_LoadYieldsStored ==
    StoreThenLoad(\H3f10, \H3f00) => last.ret = hist.prev.val

(* C5's case: a byte with a bit above the low six stored to 0x3F10, then    *)
(* 0x3F00 loaded.                                                           *)
C5_Witness == StoreThenLoad(\H3f10, \H3f00) /\ hist.prev.val >= 64

IsStore(call, cell) ==
    /\ call.op = "vram_storeb" /\ call.addr \in PaletteAddrs
    /\ BitAnd(call.addr, \H1f) = cell

(* C6: the palette alias goes one way.  A store to 0x3F10 changes the byte  *)
(* a load of 0x3F00 returns, to the byte stored; a store to 0x3F00 (at any  *)
(* of its mirrors) leaves the byte a load of 0x3F10 returns as it was.      *)
C6_AliasOneWay ==
    [][ /\ (IsStore(last', \H10) /\ last' # last =>
                Vram_loadb(vram', \H3f00) = last'.val)
        /\ (IsStore(last', \H00) /\ last' # last =>
                Vram_loadb(vram', \H3f10) = Vram_loadb(vram, \H3f10)) ]_vars

(* C6's case: after a store to 0x3F10, a store of another byte to 0x3F00    *)
(* and then a load of 0x3F10.                                               *)
C6_Witness ==
    /\ StoreThenLoad(\H3f00, \H3f10)
    /\ Vram_loadb(vram, \H3f00) = hist.prev.val /\ hist.prev.val # 0
    /\ hist.nops = 3

(* C7: for every address a in 0x2000..0x3EFF whose partner a XOR 0x800 is   *)
(* in that range too, a store of V at a followed by a load at a XOR 0x800   *)
(* yields V.                                                                *)
C7_NametableMirror ==
    ( /\ hist.prev.op = "vram_storeb" /\ hist.prev.addr \in NametableAddrs
      /\ last.op = "vram_loadb" /\ last.addr \in NametableAddrs
      /\ last.addr = BitXor(hist.prev.addr, \H0800) )
    => last.ret = hist.prev.val

(* C7's case: a store in the second table of the 0x3000 mirror, then a load *)
(* at the partner address.                                                  *)
C7_Witness ==
    /\ hist.prev.op = "vram_storeb" /\ hist.prev.addr = \H3c00 /\ hist.prev.val # 0
    /\ last.op = "vram_loadb" /\ last.addr = \H3400

(* C11 as claimed: an address of 0x4000 or more presented to the VRAM, by a *)
(* load or by a store, is a fatal error that halts; it is never silently    *)
(* accepted or ignored.                                                     *)
C11_InvalidAddressHalts ==
    (last.op \in { "vram_loadb", "vram_storeb" } /\ last.addr >= \H4000) => pc = "failed"

-----------------------------------------------------------------------------
(* SpecSprite: where a sprite is.  The caller stores the Y byte of sprite 0 *)
(* through the OAM data register (and may store a control byte), and        *)
(* on_scanline is then asked about the sprite on every row.                 *)

SpriteCtrls == { \H00, \H20 }
Rows == 0..255

SpriteInit == Ppu_new(Vram_new(ArrZero), Oam_new)

SpriteStoreY == \E v \in 0..255 : regs.oam_addr = 0 /\ Ppu_storeb(\H2004, v)

SpriteStoreCtrl == \E v \in SpriteCtrls : last.op = "none" /\ Ppu_storeb(\H2000, v)

SpriteOnScanline ==
    \E y \in Rows :
        /\ pc = "idle"
        /\ last.op = "storeb" /\ BitAnd(last.addr, 7) = 4
        /\ last' = [op |-> "on_scanline", addr |-> y, val |-> 0,
                    ret |-> on_scanline(make_sprite_info(oam, 0), regs.ctrl, y)]
        /\ hist' = [hist EXCEPT !.prev = last]
        /\ UNCHANGED <<regs, vram, oam, screen, scanline, ppudata_buffer, scroll_x,
                       scroll_y, cy, pc, run_to_cycle, result>>

SpriteNext == SpriteStoreY \/ SpriteStoreCtrl \/ SpriteOnScanline

SpecSprite == SpriteInit /\ [][SpriteNext]_vars

Asked8x8 == last.op = "on_scanline" /\ sprite_size(regs.ctrl) = "SpriteSize8x8"

StoredY == Oam_loadb(oam, 0)

(* C4 as claimed: a sprite of 8x8 size with stored Y byte v is on exactly   *)
(* the 8 scanlines v .. v+7; with stored Y byte 11, on scanlines 11 and 18  *)
(* and on neither 10 nor 19.                                                *)
C4_OnStoredRows ==
    Asked8x8 => (last.ret <=> (StoredY <= last.addr /\ last.addr <= StoredY + 7))

(* C4 amended: a sprite of 8x8 size with stored Y byte v is on exactly the  *)
(* 8 scanlines v+1 .. v+8 when v <= 246 (with stored Y byte 11, on 12 and   *)
(* 19 and on neither 11 nor 20); with v = 255 it is on scanlines 0 .. 7,    *)
(* and with v in 247 .. 254 it is on no scanline.                           *)
C4_OnRowsBelowStored ==
    Asked8x8 =>
        (last.ret <=>
            CASE StoredY <= 246 -> StoredY + 1 <= last.addr /\ last.addr <= StoredY + 8
              [] StoredY = 255 -> last.addr <= 7
              [] OTHER -> FALSE)

(* C4's case: the stored Y byte is 11 and the sprite is found on row 19.    *)
C4_Witness == Asked8x8 /\ StoredY = 11 /\ last.addr = 19 /\ last.ret

-----------------------------------------------------------------------------
(* SpecOverflow: sprite evaluation.  OAM holds one of a family of sprite    *)
(* layouts; the caller may select 8x16 sprites, and then steps the core one *)
(* scanline at a time over the first MaxRows rows.                          *)

MaxRows == 12
MaxOnRow == 10

Hidden == \Hf0

(* n sprites with stored Y byte 1 in the slots 0, stride, 2*stride, ...     *)
OamRow(n, stride) ==
    [a \in { 4 * i : i \in 0..63 } |->
        IF (a \div 4) % stride = 0 /\ (a \div 4) \div stride < n THEN 1 ELSE Hidden]

(* per sprites on each stored Y byte 0, 1, 2, ..., slot by slot.            *)
OamStairs(per) == [a \in { 4 * i : i \in 0..63 } \ {0} |-> (a \div 4) \div per]

OverflowOams ==
    { OamRow(n, stride) : n \in 0..MaxOnRow, stride \in { 1, 6, 9 } }
        \cup { OamStairs(per) : per \in { 1, 2 } }

OverflowInit ==
    \E om \in OverflowOams : Ppu_new(Vram_new(ArrZero), om)

OverflowStoreCtrl == last.op = "none" /\ Ppu_storeb(\H2000, \H20)

OverflowStep == cy < MaxRows * CYCLES_PER_SCANLINE /\ step_call(cy + CYCLES_PER_SCANLINE)

OverflowNext == OverflowStoreCtrl \/ OverflowStep \/ step_iteration \/ step_return

SpecOverflow == OverflowInit /\ [][OverflowNext]_vars

OnRow(sl) ==
    Cardinality({ i \in 0..63 : on_scanline(make_sprite_info(oam, i), regs.ctrl, U8(sl)) })

Rendered == pc = "step" /\ pc' # "idle" /\ scanline < SCREEN_HEIGHT

(* C9: rendering a scanline that 9 or more sprites are on sets the sprite   *)
(* overflow flag of the status register; rendering one that 8 or fewer are  *)
(* on leaves the flag with the value it had before that scanline.           *)
C9_OverflowAtNine ==
    [][ Rendered =>
            IF OnRow(scanline) >= 9
            THEN BitAnd(regs'.status, \H20) # 0
            ELSE BitAnd(regs'.status, \H20) = BitAnd(regs.status, \H20) ]_vars

(* C9's case: the flag is set after the rendering of a row that exactly 9   *)
(* sprites are on, in an OAM that never has more on a row.                  *)
C9_Witness ==
    /\ pc = "idle" /\ last.op = "step" /\ scanline = 3
    /\ OnRow(1) = 0 /\ OnRow(2) = 9
    /\ BitAnd(regs.status, \H20) # 0

Qualifying(sl) ==
    { i \in 0..63 : on_scanline(make_sprite_info(oam, i), regs.ctrl, U8(sl)) }

(* The k-th lowest slot of q.                                               *)
Lowest(q, k) == CHOOSE i \in q : Cardinality({ j \in q : j < i }) = k - 1

(* C16: the sprite evaluator's result for a scanline is exactly the lowest  *)
(* slots of OAM, at most 8, whose sprite is on that scanline, in ascending  *)
(* slot order, with no duplicate and no empty entry before a filled one;    *)
(* with fewer than 9 such sprites every slot up to 63 is examined, so a     *)
(* sprite in the last slot is in the result.                                *)
C16_LowestEight ==
    \A k \in 1..8 :
        compute_visible_sprites(scanline).result[k] =
            IF k <= Cardinality(Qualifying(scanline))
            THEN Some(Lowest(Qualifying(scanline), k))
            ELSE None

(* C16's case: the scanline about to be rendered has exactly 8 sprites, in  *)
(* slots 9 apart, the last of them in slot 63, after a scanline with none.  *)
C16_Witness ==
    /\ pc = "idle" /\ last.op = "step" /\ scanline = 2
    /\ Qualifying(1) = { } /\ Cardinality(Qualifying(2)) = 8
    /\ compute_visible_sprites(2).result[8] = Some(63)
    /\ compute_visible_sprites(2).result[2] = Some(9)

-----------------------------------------------------------------------------
(* SpecFrame: one frame.  From the freshly constructed core over a          *)
(* cartridge whose pattern data is all zero, the caller may first store a   *)
(* mask, and then drives step with non-decreasing targets up to             *)
(* FrameCycles, in one call or split over several.                          *)

FrameCycles == 262 * CYCLES_PER_SCANLINE

FrameTargets ==
    { CYCLES_PER_SCANLINE,
      VBLANK_SCANLINE * CYCLES_PER_SCANLINE - 1, VBLANK_SCANLINE * CYCLES_PER_SCANLINE,
      LAST_SCANLINE * CYCLES_PER_SCANLINE, FrameCycles }

FrameMasks == { \H18 }

FrameInit == Ppu_new(Vram_new(ArrZero), Oam_new)

FrameStoreMask ==
    \E v \in FrameMasks :
        /\ last.op = "none"
        /\ Ppu_storeb(\H2001, v)

FrameStep ==
    \E t \in FrameTargets :
        /\ t >= run_to_cycle
        /\ step_call(t)

FrameNext == FrameStoreMask \/ FrameStep \/ step_iteration \/ step_return

SpecFrame == FrameInit /\ [][FrameNext]_vars

Count(seq, e) == Cardinality({i \in 1..Len(seq) : seq[i] = e})

(* The frame has been driven to its end: the last step call has returned    *)
(* and the cycle counter stands at FrameCycles.                             *)
FrameDone == pc = "idle" /\ last.op = "step" /\ cy = FrameCycles

(* C1: from the freshly constructed core, driving step with non-decreasing  *)
(* targets up to exactly 262 * 114 cycles, in one call or split over many,  *)
(* gives frame_completed = true exactly once and exactly one vblank entry   *)
(* (the vblank flag going from clear to set), and the vblank entry comes    *)
(* strictly before the frame completion: at no point of the drive has more  *)
(* than one of either happened or a frame wrapped before the vblank entry,  *)
(* and at its end the events are exactly vblank entry, frame wrap, and the  *)
(* one return with frame_completed.                                         *)
C1_OneFrameOneVblank ==
    /\ Count(hist.events, "vblank_entry") <= 1
    /\ Count(hist.events, "frame_completed") <= 1
    /\ (hist.events # << >> => hist.events[1] = "vblank_entry")
    /\ (FrameDone => hist.events = <<"vblank_entry", "new_frame", "frame_completed">>)

(* C1's case: the frame driven to its end from the fresh core by step calls *)
(* alone.                                                                   *)
C1_Witness == FrameDone /\ hist.nops = 0 /\ last.addr = FrameCycles /\ last.ret.new_frame

(* The scenario of C8: ctrl = 0, background and sprites enabled in mask,    *)
(* pattern data, nametables, palette and OAM all zero, and the frame driven *)
(* to its end.                                                              *)
C8_Scenario ==
    /\ regs.ctrl = 0 /\ regs.mask = \H18
    /\ vram = Vram_new(ArrZero) /\ oam = Oam_new

(* C8 as claimed: the full frame raises no fatal error, reports             *)
(* frame_completed exactly once and leaves every byte of the frame buffer   *)
(* equal to 0.                                                              *)
C8_AllBlack ==
    /\ (C8_Scenario => pc # "failed")
    /\ (C8_Scenario /\ FrameDone =>
            /\ Count(hist.events, "frame_completed") = 1
            /\ \A i \in 0..(SCREEN_WIDTH * SCREEN_HEIGHT * 3 - 1) :
                   ScreenByte(screen, i) = 0)

(* C8, amended: the full frame raises no fatal error, reports               *)
(* frame_completed exactly once and leaves every byte of the frame buffer   *)
(* equal to 124: palette RAM cell 0 holds index 0, and entry 0 of PALETTE   *)
(* is the grey (124, 124, 124).                                             *)
C8_AllGrey ==
    /\ (C8_Scenario => pc # "failed")
    /\ (C8_Scenario /\ FrameDone =>
            /\ Count(hist.events, "frame_completed") = 1
            /\ \A i \in 0..(SCREEN_WIDTH * SCREEN_HEIGHT * 3 - 1) :
                   ScreenByte(screen, i) = 124)

C8_Witness == C8_Scenario /\ FrameDone /\ DOMAIN screen = 0..(SCREEN_HEIGHT - 1)

-----------------------------------------------------------------------------
(* SpecNmi: the NMI request over nearly two frames.  The caller steps the   *)
(* fresh core to the line before vblank, to the vblank entry, into vblank   *)
(* and to the vblank entry of the next frame, or from any of these points   *)
(* straight to the last; once, between two calls, it may enable the NMI in  *)
(* ctrl.                                                                    *)

NmiTargets ==
    { VBLANK_SCANLINE * CYCLES_PER_SCANLINE - 1,
      VBLANK_SCANLINE * CYCLES_PER_SCANLINE,
      (VBLANK_SCANLINE + 9) * CYCLES_PER_SCANLINE,
      (LAST_SCANLINE + VBLANK_SCANLINE) * CYCLES_PER_SCANLINE }

NmiInit == Ppu_new(Vram_new(ArrZero), Oam_new)

NmiEnable == regs.ctrl = 0 /\ Ppu_storeb(\H2000, \H80)

NmiStep ==
    \E t \in NmiTargets :
        /\ t >= cy + CYCLES_PER_SCANLINE
        /\ \/ \A u \in NmiTargets : u <= t
           \/ \A u \in NmiTargets : u >= cy + CYCLES_PER_SCANLINE => u >= t
        /\ step_call(t)

NmiNext == NmiEnable \/ NmiStep \/ step_iteration \/ step_return

SpecNmi == NmiInit /\ [][NmiNext]_vars

(* C13: a step call returns nmi_requested = true if and only if, during     *)
(* that call, the scanline counter reached the vblank-entry scanline 241    *)
(* while the NMI-enable bit 0x80 of ctrl was set: the call starts with no   *)
(* request, a turn of its loop adds the request exactly when it moves the   *)
(* scanline counter to 241 with the bit set (and ctrl does not change       *)
(* during a call), and the call returns what it has then.  So setting the   *)
(* bit while in vblank gives no NMI until the next vblank entry.            *)
C13_NmiAtVblankEntry ==
    [][ /\ (pc = "idle" /\ pc' = "step" => ~result'.vblank_nmi)
        /\ (pc = "step" /\ pc' # "idle" =>
                (result'.vblank_nmi <=>
                    \/ result.vblank_nmi
                    \/ (scanline' = VBLANK_SCANLINE /\ scanline # scanline'
                            /\ BitAnd(regs.ctrl, \H80) # 0)))
        /\ (pc = "step" /\ pc' = "idle" =>
                last'.op = "step" /\ last'.ret.vblank_nmi = result.vblank_nmi)
        /\ (pc = "step" => regs'.ctrl = regs.ctrl) ]_vars

(* C13's case: the NMI was enabled in vblank, the step call after it, which *)
(* stayed in vblank, returned no request, and the call after that, which    *)
(* reached the next vblank entry, returned one.                             *)
C13_Witness ==
    /\ pc = "idle" /\ last.op = "step" /\ last.ret.vblank_nmi
    /\ hist.prev.op = "step" /\ ~hist.prev.ret.vblank_nmi
    /\ hist.prev.addr = (VBLANK_SCANLINE + 9) * CYCLES_PER_SCANLINE
    /\ hist.nops = 1 /\ scanline = VBLANK_SCANLINE
    /\ Count(hist.events, "vblank_entry") = 2

-----------------------------------------------------------------------------
(* SpecRender: rendering a scene.  The core is constructed over a VRAM and  *)
(* an OAM that hold a small scene: four tiles of background in the top row  *)
(* of the first name table and four sprites on the scanlines 1 .. 8, placed *)
(* so that every pairing of the two layers happens at some column.  The     *)
(* caller stores a mask, may select 8x16 sprites, and steps the core one    *)
(* scanline at a time over the first MaxRenderRows rows, or in one call to  *)
(* the vblank entry.                                                        *)

MaxRenderRows == 10

Sparse(f) == [a \in {b \in DOMAIN f : f[b] # 0} |-> f[a]]

(* Tile 0 is blank, tile 1 is solid in pattern colour 3, tile 2 has pattern *)
(* colour 1 in its left half, tile 3 has pattern colour 2 in its right half.*)
SceneChr ==
    Sparse([a \in 0..63 |->
        CASE a \in 16..31 -> \Hff
          [] a \in 32..39 -> \Hf0
          [] a \in 56..63 -> \H0f
          [] OTHER -> 0])

(* The top row of tiles: solid, blank, left half, solid, then blank.        *)
SceneNametable == Sparse([a \in 0..3 |-> <<1, 0, 2, 1>>[a + 1]])

(* Cell 0 is the backdrop; cells 1 .. 3 colour the background, cells 0x11   *)
(* .. 0x13 the sprites.  Cell 3 has a bit above the low six.                *)
ScenePalette ==
    Sparse([a \in 0..31 |->
        CASE a = \H00 -> \H01
          [] a = \H01 -> \H16
          [] a = \H02 -> \H27
          [] a = \H03 -> \H6a
          [] a = \H11 -> \H30
          [] a = \H12 -> \H12
          [] a = \H13 -> \H24
          [] OTHER -> 0])

SceneVram == [chr |-> SceneChr, nametables |-> SceneNametable, palette |-> ScenePalette]

(* Sprites as <<Y byte, tile, attributes, X byte>>: slot 0 solid and above  *)
(* the background, at column x0; slot 1 right half, below, at 14; slot 2    *)
(* right half, above, at 22; slot 3 solid, above, at 24 (so that at the     *)
(* columns 24 and 25 slot 2 is transparent and slot 3 is not); the other    *)
(* slots are below the screen.                                              *)
SceneSprites(x0) ==
    << <<0, 1, \H00, x0>>, <<0, 3, \H20, 14>>, <<0, 3, \H00, 22>>, <<0, 1, \H00, 24>> >>

SceneOam(x0) ==
    Sparse([a \in 0..255 |->
        IF a < 16 THEN SceneSprites(x0)[(a \div 4) + 1][(a % 4) + 1]
        ELSE IF a % 4 = 0 THEN \Hf0 ELSE 0])

(* Slot 0 over the solid tile (columns 4 .. 11) or over the blank one.      *)
SceneSlotZeroColumns == { 4, 8 }

RenderMasks == { \H00, \H08, \H10, \H18 }

RenderInit == \E x0 \in SceneSlotZeroColumns : Ppu_new(SceneVram, SceneOam(x0))

RenderStoreMask == \E v \in RenderMasks : last.op = "none" /\ Ppu_storeb(\H2001, v)

RenderStoreCtrl ==
    /\ last.op = "storeb" /\ BitAnd(last.addr, 7) = 1
    /\ Ppu_storeb(\H2000, \H20)

RenderStep ==
    /\ last.op # "none"
    /\ cy < MaxRenderRows * CYCLES_PER_SCANLINE
    /\ step_call(cy + CYCLES_PER_SCANLINE)

RenderStepToVblank ==
    /\ last.op # "none" /\ cy = 0
    /\ step_call(VBLANK_SCANLINE * CYCLES_PER_SCANLINE)

RenderNext ==
    \/ RenderStoreMask \/ RenderStoreCtrl \/ RenderStep \/ RenderStepToVblank
    \/ step_iteration \/ step_return

SpecRender == RenderInit /\ [][RenderNext]_vars

(* The compositing table of C14 at column x of scanline sl.                 *)
Composited(bg, sp, backdrop) ==
    IF bg = None /\ sp = None THEN backdrop
    ELSE IF sp = None THEN bg[1]
    ELSE IF bg = None THEN sp[1].color
    ELSE IF sp[1].priority = "AboveBg" THEN sp[1].color
    ELSE bg[1]

LayerBackground(x, sl) ==
    IF BitAnd(regs.mask, \H08) # 0 THEN get_background_pixel(x, sl) ELSE None

LayerSprites(vis, x, sl, bg) ==
    IF BitAnd(regs.mask, \H10) # 0
    THEN get_sprite_pixel(vis, x, bg # None, sl).color
    ELSE None

CompositedAt(vis, backdrop, x, sl) ==
    Composited(LayerBackground(x, sl),
               LayerSprites(vis, x, sl, LayerBackground(x, sl)),
               backdrop)

PixelAt(scr, x, y) ==
    [ r |-> ScreenByte(scr, (y * SCREEN_WIDTH + x) * 3 + 0),
      g |-> ScreenByte(scr, (y * SCREEN_WIDTH + x) * 3 + 1),
      b |-> ScreenByte(scr, (y * SCREEN_WIDTH + x) * 3 + 2) ]

RenderedRow == pc = "step" /\ pc' = "step" /\ scanline < SCREEN_HEIGHT

CompositedRow(vis, backdrop, sl) ==
    \A x \in 0..(SCREEN_WIDTH - 1) :
        PixelAt(screen', x, sl) = CompositedAt(vis, backdrop, x, sl)

(* C14: the pixel written at each column of a rendered scanline follows the *)
(* compositing table: no opaque background and no opaque sprite gives the   *)
(* backdrop colour (palette cell 0x00); background only gives the           *)
(* background colour; sprite only gives the sprite colour whatever its      *)
(* priority; both with the sprite above give the sprite colour; both with   *)
(* the sprite below give the background colour; a layer whose enable bit in *)
(* mask is clear is transparent at every column.                            *)
C14_Compositing ==
    [][ RenderedRow => CompositedRow(compute_visible_sprites(scanline).result,
                                     get_color(BitAnd(Vram_loadb(vram, \H3f00), \H3f)),
                                     scanline) ]_vars

(* C14's case: scanline 1 of the scene rendered with both layers enabled.   *)
(* Column 0 has background only, column 4 both with the sprite above,       *)
(* column 8 a sprite only, column 12 neither, column 18 both with the       *)
(* sprite below, column 20 a sprite of priority below only.                 *)
C14_Witness ==
    /\ pc = "idle" /\ last.op = "step" /\ scanline = 2
    /\ regs.mask = \H18 /\ regs.ctrl = 0 /\ Oam_loadb(oam, 3) = 4
    /\ PixelAt(screen, 0, 1) = get_color(\H2a)
    /\ PixelAt(screen, 4, 1) = get_color(\H24)
    /\ PixelAt(screen, 8, 1) = get_color(\H24)
    /\ PixelAt(screen, 12, 1) = get_color(\H01)
    /\ PixelAt(screen, 18, 1) = get_color(\H16)
    /\ PixelAt(screen, 20, 1) = get_color(\H12)

InVisibleBox(x, sl) ==
    \E k \in 1..8 :
        /\ compute_visible_sprites(sl).result[k] # None
        /\ in_bounding_box(make_sprite_info(oam, compute_visible_sprites(sl).result[k][1]),
                           regs.ctrl, x, U8(sl))

Attempted8x16 ==
    /\ pc = "step" /\ pc' # "idle" /\ scanline < SCREEN_HEIGHT
    /\ sprite_size(regs.ctrl) = "SpriteSize8x16"

(* C15: with ctrl selecting 8x16 sprites and sprites enabled in mask,       *)
(* rendering a scanline with a column inside the bounding box of a sprite   *)
(* of its visible list fails (the not-implemented condition); and no pixel  *)
(* sampled from an 8x16 sprite is written: every pixel of the row is left   *)
(* as it was or is the one the table gives without a sprite.                *)
C15_NoSprite8x16 ==
    [][ Attempted8x16 =>
            /\ ( ( /\ BitAnd(regs.mask, \H10) # 0
                   /\ \E x \in 0..(SCREEN_WIDTH - 1) : InVisibleBox(x, scanline) )
                 => pc' = "failed" )
            /\ \A x \in 0..(SCREEN_WIDTH - 1) :
                   \/ PixelAt(screen', x, scanline) = PixelAt(screen, x, scanline)
                   \/ PixelAt(screen', x, scanline) =
                          Composited(LayerBackground(x, scanline), None,
                                     get_color(BitAnd(Vram_loadb(vram, \H3f00), \H3f))) ]_vars

(* C15's case: 8x16 sprites with both layers enabled; scanline 1 failed at  *)
(* column 4, the first column of slot 0's box, with the columns before it   *)
(* written from the background and column 4 not written.                    *)
C15_Witness ==
    /\ pc = "failed" /\ scanline = 1
    /\ regs.ctrl = \H20 /\ regs.mask = \H18 /\ Oam_loadb(oam, 3) = 4
    /\ PixelAt(screen, 3, 1) = get_color(\H2a)
    /\ PixelAt(screen, 4, 1) = [r |-> 0, g |-> 0, b |-> 0]

(* Sprite slot i at column x of scanline sl, sampled on its own: its        *)
(* pattern colour there (0 outside its box) and the colour it gives.        *)
SlotPattern(i, x, sl) ==
    LET sprite == make_sprite_info(oam, i)
        dx == x - sprite.x
        dy == sl - sprite.y
    IN  IF in_bounding_box(sprite, regs.ctrl, x, U8(sl))
        THEN get_pattern_pixel("Sprite", tiles(sprite, regs.ctrl).tile,
                               IF flip_horizontal(sprite) THEN 7 - dx ELSE dx,
                               IF flip_vertical(sprite) THEN 7 - dy ELSE dy)
        ELSE 0

SlotColor(i, x, sl) ==
    [ priority |-> priority(make_sprite_info(oam, i)),
      color |-> get_color(BitAnd(
                    Vram_loadb(vram, \H3f00 + palette(make_sprite_info(oam, i)) * 4
                                         + SlotPattern(i, x, sl)),
                    \H3f)) ]

(* The entries of the visible list vis that are opaque at column x, and the *)
(* slot of the first of them (None when there is none).                     *)
OpaqueEntries(vis, x, sl) ==
    { k \in 1..8 : vis[k] # None /\ SlotPattern(vis[k][1], x, sl) # 0 }

FirstIn(vis, entries) ==
    IF entries = { } THEN None
    ELSE Some(vis[CHOOSE k \in entries : \A j \in entries : k <= j][1])

FirstOpaque(vis, x, sl) == FirstIn(vis, OpaqueEntries(vis, x, sl))

ColorOf(slot, x, sl) == IF slot = None THEN None ELSE Some(SlotColor(slot[1], x, sl))

ZeroHitAt(vis, x, sl) ==
    /\ BitAnd(regs.mask, \H08) # 0 /\ BitAnd(regs.mask, \H10) # 0
    /\ get_background_pixel(x, sl) # None
    /\ FirstOpaque(vis, x, sl) = Some(0)

ZeroHit(status) == BitAnd(status, \H40) # 0

(* What C17 says of the rendering of scanline sl, whose visible list is vis *)
(* and whose backdrop colour is backdrop.                                   *)
ZeroHitRow(vis, backdrop, sl) ==
    /\ ZeroHit(regs'.status) <=>
           \/ ZeroHit(regs.status)
           \/ \E x \in 0..(SCREEN_WIDTH - 1) : ZeroHitAt(vis, x, sl)
    /\ BitAnd(regs.mask, \H10) # 0 =>
           \A x \in 0..(SCREEN_WIDTH - 1) :
               PixelAt(screen', x, sl) =
                   Composited(LayerBackground(x, sl),
                              ColorOf(FirstOpaque(vis, x, sl), x, sl),
                              backdrop)

(* C17: rendering sets the sprite-zero-hit flag 0x40 only at a column where *)
(* slot 0 is the sprite that resolves opaque and the background pixel is    *)
(* opaque, both layers being enabled in mask (and it does set it there);    *)
(* the sprite that resolves at a column is the first entry of the visible   *)
(* list that is opaque there, transparent entries before it being passed    *)
(* over; and the flag is cleared when the scanline counter reaches the      *)
(* vblank-entry scanline.                                                   *)
C17_SpriteZeroHit ==
    [][ /\ (ZeroHit(regs'.status) /\ ~ZeroHit(regs.status) => RenderedRow)
        /\ (RenderedRow /\ sprite_size(regs.ctrl) = "SpriteSize8x8" =>
                ZeroHitRow(compute_visible_sprites(scanline).result,
                           get_color(BitAnd(Vram_loadb(vram, \H3f00), \H3f)),
                           scanline))
        /\ (pc = "step" /\ scanline' = VBLANK_SCANLINE /\ scanline # scanline' =>
                ~ZeroHit(regs'.status)) ]_vars

(* C17's case: the frame of the scene with slot 0 over the solid tile has   *)
(* been stepped to the vblank entry with both layers enabled; the flag is   *)
(* clear now, and in row 1 the columns 24 and 25, where slot 2 is           *)
(* transparent, have the colour of slot 3, and column 4 that of slot 0      *)
(* over the opaque background, where the flag was set.                      *)
C17_Witness ==
    /\ pc = "idle" /\ last.op = "step" /\ scanline = VBLANK_SCANLINE
    /\ regs.mask = \H18 /\ regs.ctrl = 0 /\ Oam_loadb(oam, 3) = 4
    /\ ~ZeroHit(regs.status)
    /\ ZeroHitAt(compute_visible_sprites(1).result, 4, 1)
    /\ FirstOpaque(compute_visible_sprites(1).result, 24, 1) = Some(3)
    /\ SlotPattern(2, 24, 1) = 0
    /\ PixelAt(screen, 24, 1) = get_color(\H24)
    /\ PixelAt(screen, 4, 1) = get_color(\H24)


-----------------------------------------------------------------------------
(* Sprite 0's bounding box: a core whose OAM holds sprite 0 with Y byte     *)
(* BoxStoredY; the caller selects the sprite size, stores the X byte        *)
(* through OAMADDR and OAMDATA, and in_bounding_box is asked of one point,  *)
(* the point and the answer being recorded in last.                         *)

BoxStoredY == 10
BoxCtrls == { \H00, \H20 }
BoxRows == { 11, 19 }

BoxInit == Ppu_new(Vram_new(ArrZero), ArrWr(Oam_new, 0, BoxStoredY))

BoxStoreCtrl == \E v \in BoxCtrls : last.op = "none" /\ Ppu_storeb(\H2000, v)

BoxStoreOamAddr == last.addr = \H2000 /\ Ppu_storeb(\H2003, 3)

BoxStoreX == \E v \in 0..255 : last.addr = \H2003 /\ Ppu_storeb(\H2004, v)

BoxInBoundingBox ==
    \E x \in 0..(SCREEN_WIDTH - 1), y \in BoxRows :
        /\ pc = "idle"
        /\ last.op = "storeb" /\ last.addr = \H2004
        /\ last' = [op |-> "in_bounding_box", addr |-> x, val |-> y,
                    ret |-> in_bounding_box(make_sprite_info(oam, 0), regs.ctrl, x, y)]
        /\ hist' = [hist EXCEPT !.prev = last]
        /\ UNCHANGED <<regs, vram, oam, screen, scanline, ppudata_buffer, scroll_x,
                       scroll_y, cy, pc, run_to_cycle, result>>

BoxNext == BoxStoreCtrl \/ BoxStoreOamAddr \/ BoxStoreX \/ BoxInBoundingBox

SpecBox == BoxInit /\ [][BoxNext]_vars

AskedBox == last.op = "in_bounding_box"

StoredX == Oam_loadb(oam, 3)

(* C18: for every X byte sx and every column x, in_bounding_box(x, y) holds *)
(* exactly when sx <= x < sx + 8 as integers (a sprite with sx >= 249 still *)
(* covering columns sx .. 255) and on_scanline(y) holds.                    *)
C18_BoundingBox ==
    AskedBox =>
        (last.ret <=>
            /\ StoredX <= last.addr /\ last.addr < StoredX + 8
            /\ on_scanline(make_sprite_info(oam, 0), regs.ctrl, last.val))

(* What the code computes instead: the right edge sx + 8 is taken modulo    *)
(* 256, so a sprite with sx >= 248 is in the box at no column.              *)
C18_BoxWrapsAtRightEdge ==
    AskedBox =>
        (last.ret <=>
            /\ StoredX <= 247
            /\ StoredX <= last.addr /\ last.addr < StoredX + 8
            /\ on_scanline(make_sprite_info(oam, 0), regs.ctrl, last.val))

(* C18's failing case: X byte 250, column 252, on a scanline of the sprite, *)
(* answered false.                                                          *)
C18_Witness ==
    /\ AskedBox /\ StoredX = 250 /\ last.addr = 252 /\ last.val = 11
    /\ on_scanline(make_sprite_info(oam, 0), regs.ctrl, 11)
    /\ ~last.ret

StoresAddr == last'.op = "storeb" /\ BitAnd(last'.addr, 7) = 6 /\ hist'.nops # hist.nops

(* C19: a store to register index 6 that finds the latch at Hi leaves       *)
(* scroll_x unchanged; the store to index 6 that follows it leaves          *)
(* addr.val = (hi << 8) | lo, sets bit 8 of scroll_x exactly when           *)
(* (addr.val & 0x7ff) >= 0x400 and keeps the low 8 bits of scroll_x;        *)
(* neither store changes scroll_y or the raw scroll register.               *)
C19_AddrPair ==
    [][ StoresAddr =>
            /\ scroll_y' = scroll_y
            /\ regs'.scroll = regs.scroll
            /\ (regs.addr.next = "Hi" => scroll_x' = scroll_x)
            /\ (regs.addr.next = "Lo" =>
                    /\ BitAnd(scroll_x', \Hff) = BitAnd(scroll_x, \Hff)
                    /\ (BitAnd(scroll_x', \H100) # 0 <=>
                            BitAnd(regs'.addr.val, \H7ff) >= \H400)
                    /\ (LastStore(6) =>
                            regs'.addr.val = last.val * 256 + last'.val)) ]_vars

(* C19's case: with scroll position 0x3f stored, the pair 0x3f, 0x20 has    *)
(* put 0x3f20 in addr.val and set bit 8 of scroll_x over the kept low byte. *)
C19_Witness ==
    /\ LastStore(6) /\ hist.prev.op = "storeb" /\ BitAnd(hist.prev.addr, 7) = 6
    /\ regs.addr.next = "Hi"
    /\ hist.prev.val = \H3f /\ last.val = \H20
    /\ regs.addr.val = \H3f20
    /\ scroll_x = \H13f /\ regs.scroll.x = \H3f

NoStepResult == [new_frame |-> FALSE, vblank_nmi |-> FALSE]

CoreUnchanged ==
    UNCHANGED <<regs, vram, oam, screen, scanline, ppudata_buffer, scroll_x, scroll_y, cy>>

(* C20: step(t) advances by whole scanlines only while cy + 114 <= t.  The  *)
(* entry of a call changes nothing and starts from the result {false,       *)
(* false}; once t < cy + 114 the call changes nothing more and returns the  *)
(* result it has, so that on return t < cy + 114 and a call entered with    *)
(* t < cy + 114 changes no state and returns {false, false}; cy changes     *)
(* only inside a call, by one scanline at a time and never beyond t, so it  *)
(* never decreases and never exceeds max(t, cy on entry).                   *)
C20_WholeScanlines ==
    [][ /\ cy' >= cy
        /\ (pc = "idle" /\ pc' = "step" => CoreUnchanged /\ result' = NoStepResult)
        /\ (pc = "step" /\ run_to_cycle < cy + CYCLES_PER_SCANLINE =>
                /\ CoreUnchanged
                /\ pc' = "idle"
                /\ last' = [op |-> "step", addr |-> run_to_cycle, val |-> 0,
                            ret |-> result])
        /\ (pc = "step" /\ run_to_cycle >= cy + CYCLES_PER_SCANLINE =>
                /\ pc' # "idle"
                /\ cy' = cy + CYCLES_PER_SCANLINE
                /\ cy' <= run_to_cycle)
        /\ (pc # "step" => cy' = cy)
        /\ (last'.op = "step" /\ pc' = "idle" =>
                last'.addr < cy' + CYCLES_PER_SCANLINE) ]_vars

(* C20's case: step(115) advanced the counter by one scanline to 114, and   *)
(* then step(113), whose target is behind the counter, returned {false,     *)
(* false} leaving the counter and the scanline where they were.             *)
C20_Witness ==
    /\ pc = "idle"
    /\ hist.prev.op = "step" /\ hist.prev.addr = CYCLES_PER_SCANLINE + 1
    /\ last.op = "step" /\ last.addr = CYCLES_PER_SCANLINE - 1
    /\ last.ret = NoStepResult
    /\ cy = CYCLES_PER_SCANLINE /\ scanline = 1

-----------------------------------------------------------------------------
(* The status flags over a frame and the start of the next: the scene with  *)
(* eight more sprites on rows 1 .. 8 (twelve on row 1, so that the overflow *)
(* flag and the sprite-zero-hit flag are both set there), both layers       *)
(* enabled, stepped to the end of row 1, to vblank entry, into vblank, to   *)
(* the frame wrap and past row 1 of the next frame, with loads of and       *)
(* stores to the status register between the calls.                         *)

MaxStatusOps == 3

StatusOam ==
    Sparse([a \in 0..255 |->
        IF a < 16 THEN SceneSprites(4)[(a \div 4) + 1][(a % 4) + 1]
        ELSE IF a >= 48 /\ a % 4 = 0 THEN \Hf0 ELSE 0])

StatusTargets ==
    { 2 * CYCLES_PER_SCANLINE,
      VBLANK_SCANLINE * CYCLES_PER_SCANLINE,
      (VBLANK_SCANLINE + 9) * CYCLES_PER_SCANLINE,
      LAST_SCANLINE * CYCLES_PER_SCANLINE,
      (LAST_SCANLINE + 2) * CYCLES_PER_SCANLINE }

StatusInit == Ppu_new(SceneVram, StatusOam)

StatusStoreMask == last.op = "none" /\ Ppu_storeb(\H2001, \H18)

StatusLoad ==
    /\ last.op # "none" /\ hist.nops < MaxStatusOps
    /\ Ppu_loadb(\H2002)

StatusStore ==
    /\ last.op # "none" /\ hist.nops < MaxStatusOps
    /\ Ppu_storeb(\H2002, \Hff)

StatusStep ==
    \E t \in StatusTargets :
        /\ last.op # "none"
        /\ t >= cy + CYCLES_PER_SCANLINE
        /\ \A u \in StatusTargets : u >= cy + CYCLES_PER_SCANLINE => u >= t
        /\ step_call(t)

StatusNext ==
    \/ StatusStoreMask \/ StatusLoad \/ StatusStore \/ StatusStep
    \/ step_iteration \/ step_return

SpecStatus == StatusInit /\ [][StatusNext]_vars

InVblank(status) == BitAnd(status, \H80) # 0

(* C21: between calls, the vblank status flag 0x80 is set if and only if    *)
(* scanline >= 241, scanline is within 0 .. 261, a load of the status       *)
(* register returns the flags and leaves them as they were, and the         *)
(* sprite-zero-hit flag is clear whenever the vblank flag is set.           *)
C21_VblankFlag ==
    pc = "idle" =>
        /\ InVblank(regs.status) <=> scanline >= VBLANK_SCANLINE
        /\ scanline \in 0..261
        /\ (InVblank(regs.status) => ~ZeroHit(regs.status))
        /\ (last.op = "loadb" /\ BitAnd(last.addr, 7) = 2 => regs.status = last.ret)

(* C21's case: in vblank, after a frame whose row 1 set the sprite-zero-hit *)
(* flag, a load of the status register has returned the vblank flag, which  *)
(* is still set.                                                            *)
C21_Witness ==
    /\ pc = "idle" /\ scanline = VBLANK_SCANLINE + 9
    /\ last.op = "loadb" /\ BitAnd(last.addr, 7) = 2 /\ InVblank(last.ret)
    /\ InVblank(regs.status)
    /\ ZeroHitAt(compute_visible_sprites(1).result, 4, 1)

Overflowed(status) == BitAnd(status, \H20) # 0

(* C23: once the status overflow flag 0x20 is set it stays set: no step     *)
(* (vblank entry and frame wrap included), register load (a status read     *)
(* included) or register store clears it.                                   *)
C23_OverflowSticky ==
    [][ Overflowed(regs.status) => Overflowed(regs'.status) ]_vars

(* C23's case: the flag was set on row 1, a status load in vblank returned  *)
(* it with the vblank flag, and the frame has wrapped to scanline 0 with    *)
(* the flag still set and no row of the next frame rendered yet.            *)
C23_Witness ==
    /\ pc = "idle" /\ scanline = 0 /\ cy = LAST_SCANLINE * CYCLES_PER_SCANLINE
    /\ last.op = "step" /\ last.ret.new_frame
    /\ hist.prev.op = "loadb" /\ BitAnd(hist.prev.addr, 7) = 2
    /\ Overflowed(hist.prev.ret) /\ InVblank(hist.prev.ret)
    /\ Overflowed(regs.status) /\ ~InVblank(regs.status)

(* C22: in every reachable state the low 8 bits of each scroll accumulator  *)
(* equal the raw scroll register byte: scroll_x mod 256 = scroll.x and      *)
(* scroll_y mod 256 = scroll.y, ctrl and address stores changing only       *)
(* accumulator bits above the low byte.                                     *)
C22_ScrollLowBytes ==
    /\ scroll_x % 256 = regs.scroll.x
    /\ scroll_y % 256 = regs.scroll.y

(* What the code keeps instead: the X half, and for Y only that the raw     *)
(* byte's bits are among the accumulator's (a ctrl store with bit 1 set     *)
(* ORs 240 = 0xf0 into the low byte, and nothing but a Y scroll store       *)
(* takes it out again).                                                     *)
C22_ScrollXLowByte ==
    /\ scroll_x % 256 = regs.scroll.x
    /\ BitAnd(scroll_y % 256, regs.scroll.y) = regs.scroll.y
    /\ (scroll_y % 256 # regs.scroll.y => BitAnd(scroll_y, \Hf0) = \Hf0)

====
